---- MODULE Spec2Model ----
(***************************************************************************)
(* The flat-session launcher of the pwa debug adapter: one VSSessionManager *)
(* per transport, its root and child sessions, their connection handles,    *)
(* the launch callback and the name setter.                                 *)
(*                                                                          *)
(* Two source variants are modelled side by side, selected by `variant`:    *)
(*   "flat"     src/src/flatSessionLauncher.ts  (getConnection is           *)
(*              synchronous; createSession owns the deferred handle)        *)
(*   "deferred" src/unnamed/part_000            (the strategy owns the      *)
(*              deferred handle; init resolves it)                          *)
(* SessionManager, ChildConnection, MessageEmitterConnection and            *)
(* getDeferred are imported by both files and are modelled from spec.md.    *)
(***************************************************************************)
EXTENDS Integers, Sequences, FiniteSets, TLC

\* ---------------------------------------------------------------- bounds
MaxManagers == 2
MaxOps == 2
MaxEarly == 2

\* ------------------------------------------------------------ input sets
Variants == {"flat", "deferred"}
Undefined == "undefined"
TargetIds == {"", "root", "child-1"}
Names == {"n1", "n2"}
NoConfig == [k \in {} |-> ""]
Configs == {[type |-> "pwa"], [type |-> "pwa", sessionId |-> "stale"]}
EarlyNames == UNION {[1..n -> Names] : n \in 0..MaxEarly}

VARIABLES
  variant,     \* which source file runs
  mode,        \* "none" before module startup, then "stdio" or "listen"
  managers,    \* the VSSessionManager objects constructed so far
  sessions,    \* every VSDebugSession constructed, with its handle and strategy
  views,       \* every ChildConnection constructed (construction registers it)
  wire,        \* per manager: the frames written to its shared transport
  microtasks,  \* the process's promise job queue (FIFO)
  launches,    \* history: the launch-callback invocations
  clock,       \* history: number of launch invocations and direct sends issued
  ops          \* number of operations the environment has performed

vars == <<variant, mode, managers, sessions, views, wire, microtasks,
          launches, clock, ops>>

\* The mutable part of the heap, threaded through the handlers.
Heap ==
  [managers |-> managers, sessions |-> sessions, views |-> views,
   wire |-> wire, microtasks |-> microtasks]

\* ------------------------------------------------------------ promise jobs
DapJob(s, newName, now) ==
  [kind |-> "dap", s |-> s, name |-> newName, config |-> NoConfig,
   issued |-> now, inv |-> 0]

ProcessJob(job) == [job EXCEPT !.kind = "process"]

AnnounceJob(p, config, now, inv) ==
  [kind |-> "announce", s |-> p, name |-> "", config |-> config,
   issued |-> now, inv |-> inv]

\* getDeferred().resolve: settles a pending promise and queues its reactions;
\* a promise that is already settled ignores it.
resolve(h, s, conn) ==
  IF h.sessions[s].promise # "pending" THEN h
  ELSE [h EXCEPT !.sessions[s].promise = "resolved",
                 !.sessions[s].value = conn,
                 !.sessions[s].reactions = <<>>,
                 !.microtasks = @ \o h.sessions[s].reactions]

\* promise.then(job) on the handle of session s.
thenOnHandle(h, s, job) ==
  IF h.sessions[s].promise = "resolved"
  THEN [h EXCEPT !.microtasks = Append(@, job)]
  ELSE [h EXCEPT !.sessions[s].reactions = Append(@, job)]

\* ------------------------------------------------------- VSDebugSession
\* Mutant: the notification reads this._name before it is written.
nameSetterFlat_staleName(h, s, newName, now) ==
  LET h1 == [h EXCEPT !.sessions[s].name = newName,
                      !.sessions[s].assigned = Append(@, newName)]
  IN thenOnHandle(h1, s, DapJob(s, h.sessions[s].name, now))

\* Mutant: an assignment made while the connection is missing is not notified.
nameSetterFlat_dropPending(h, s, newName, now) ==
  LET h1 == [h EXCEPT !.sessions[s].name = newName,
                      !.sessions[s].assigned = Append(@, newName)]
  IN IF h.sessions[s].promise = "resolved"
     THEN thenOnHandle(h1, s, DapJob(s, newName, now))
     ELSE h1

\* set name(newName), src/src/flatSessionLauncher.ts
nameSetterFlat(h, s, newName, now) ==
  LET h1 == [h EXCEPT !.sessions[s].name = newName,
                      !.sessions[s].assigned = Append(@, newName)]
  IN thenOnHandle(h1, s, DapJob(s, newName, now))

\* Mutant: with the connection at hand the notification skips the dap() step.
nameSetterDeferred_fastPath(h, s, newName, now) ==
  LET h1 == [h EXCEPT !.sessions[s].assigned = Append(@, newName)]
  IN IF h1.sessions[s].promise = "resolved"
     THEN [h1 EXCEPT !.microtasks = Append(@, ProcessJob(DapJob(s, newName, now)))]
     ELSE thenOnHandle(h1, s, DapJob(s, newName, now))

\* set name(newName), src/unnamed/part_000: the field is not written
nameSetterDeferred(h, s, newName, now) ==
  LET h1 == [h EXCEPT !.sessions[s].assigned = Append(@, newName)]
  IN thenOnHandle(h1, s, DapJob(s, newName, now))

nameSetter(h, s, newName, now) ==
  IF variant = "flat" THEN nameSetterFlat(h, s, newName, now)
  ELSE nameSetterDeferred(h, s, newName, now)

\* get name()
nameGetter(h, s) == h.sessions[s].name

\* ------------------------------------------- Root Multiplexed Connection
\* The identifier-to-view map of manager m holds an entry for sid.
Registered(h, m, sid) ==
  \E v \in DOMAIN h.views : h.views[v].mgr = m /\ h.views[v].sessionId = sid

\* new ChildConnection(logger, telemetry, rootConnection, sessionId):
\* construction registers the view and raises on a duplicate identifier.
ChildConnection(h, m, sid, owner) ==
  IF Registered(h, m, sid)
  THEN [ok |-> FALSE, h |-> h, view |-> 0]
  ELSE [ok |-> TRUE,
        h |-> [h EXCEPT !.views =
                 Append(@, [mgr |-> m, sessionId |-> sid, owner |-> owner])],
        view |-> Len(h.views) + 1]

\* The sequence number the connection gives its next protocol message.
NextSeq(h, v) ==
  LET w == h.wire[h.views[v].mgr]
  IN 1 + Cardinality({i \in DOMAIN w :
                        w[i].via = v /\ w[i].command # "attachedChildSession"})

\* ChildConnection._send(msg): stamp the view's identifier, write the frame.
\* (ready records whether the owner's handle was resolved at that moment.)
send(h, v, msg) ==
  [h EXCEPT !.wire[h.views[v].mgr] =
     Append(@, [msg EXCEPT !.sessionId = h.views[v].sessionId, !.via = v,
                           !.ready = h.sessions[h.views[v].owner].promise = "resolved"])]

\* ------------------------------------------------- VSConnectionStrategy
\* sessionId || 'root'
OrRoot(sessionId) ==
  IF sessionId = Undefined \/ sessionId = "" THEN "root" ELSE sessionId

\* Mutant: the strategy is built with the session's display id.
buildConnectionStrategy_orRoot(sessionId) == OrRoot(sessionId)

\* buildConnectionStrategy(sessionId): the identifier the strategy is built with
buildConnectionStrategy(sessionId) == sessionId

\* The views constructed for session s.
OwnedViews(h, s) == {v \in DOMAIN h.views : h.views[v].owner = s}

\* Mutant: the strategy remembers the view it built and returns it again.
getConnectionFlat_memo(h, s) ==
  LET h1 == [h EXCEPT !.sessions[s].built = @ + 1]
      r == IF OwnedViews(h1, s) # {}
           THEN [ok |-> TRUE, h |-> h1, view |-> CHOOSE v \in OwnedViews(h1, s) : TRUE]
           ELSE ChildConnection(h1, h1.sessions[s].mgr, h1.sessions[s].stratId, s)
  IN [r EXCEPT !.h.sessions[s].obtained = Append(@, r.view)]

\* getConnection(telemetryReporter, logger), src/src/flatSessionLauncher.ts
\* (built counts the evaluations of new ChildConnection, obtained records
\* what each call yielded: the view, or 0 when the construction raised.)
getConnectionFlat(h, s) ==
  LET h1 == [h EXCEPT !.sessions[s].built = @ + 1]
      r == ChildConnection(h1, h1.sessions[s].mgr, h1.sessions[s].stratId, s)
  IN [r EXCEPT !.h.sessions[s].obtained = Append(@, r.view)]

\* init(telemetryReporter, logger), src/unnamed/part_000; obtained records
\* what the handle returned by getConnection() holds after the call.
initDeferred(h, s) ==
  LET h1 == [h EXCEPT !.sessions[s].built = @ + 1]
      r == ChildConnection(h1, h1.sessions[s].mgr, h1.sessions[s].stratId, s)
      r2 == IF r.ok THEN [r EXCEPT !.h = resolve(r.h, s, r.view)] ELSE r
  IN [r2 EXCEPT !.h.sessions[s].obtained = Append(@, r2.h.sessions[s].value)]

\* ------------------------------------------------------- SessionManager
RECURSIVE assignNames(_, _, _, _)
assignNames(h, s, names, now) ==
  IF names = <<>> THEN h
  ELSE assignNames(nameSetter(h, s, Head(names), now), s, Tail(names), now)

\* sessionManager.createNewSession(debugSession, config, strategy): the
\* registry may rename the session while it wires it (early), asks the
\* strategy for the connection, and registers the session.
createNewSession(h, s, config, early, now) ==
  LET h1 == assignNames(h, s, early, now)
      r == IF variant = "flat" THEN getConnectionFlat(h1, s)
           ELSE initDeferred(h1, s)
  IN IF ~r.ok THEN [ok |-> FALSE, h |-> r.h, connection |-> 0]
     ELSE [ok |-> TRUE,
           h |-> [r.h EXCEPT !.sessions[s].live = TRUE,
                             !.sessions[s].config = config,
                             !.sessions[s].connection = r.view],
           connection |-> r.view]

\* ----------------------------------------------------- VSSessionManager
VSDebugSession(m, sessionId, id, name, mockProcessId) ==
  [mgr |-> m, sessionId |-> sessionId,
   stratId |-> buildConnectionStrategy(sessionId),
   id |-> id, name |-> name, initialName |-> name,
   mockProcessId |-> mockProcessId,
   promise |-> "pending", value |-> 0, reactions |-> <<>>,
   live |-> FALSE, config |-> NoConfig, connection |-> 0,
   assigned |-> <<>>, early |-> 0, built |-> 0, obtained |-> <<>>]

\* Mutant: deferredConnection.resolve(...) is forgotten.
createSessionFlat_noResolve(h, m, sessionId, name, config, early, now) ==
  LET s == Len(h.sessions) + 1
      obj == [VSDebugSession(m, sessionId, OrRoot(sessionId), name,
                             h.managers[m].mockProcessId)
                EXCEPT !.early = Len(early)]
      h0 == [h EXCEPT !.sessions = Append(@, obj),
                      !.managers[m].mockProcessId = @ + 1]
      r == createNewSession(h0, s, config, early, now)
  IN [ok |-> r.ok, h |-> r.h, s |-> s]

\* Mutant: the handle is resolved with the root connection.
createSessionFlat_rootConn(h, m, sessionId, name, config, early, now) ==
  LET s == Len(h.sessions) + 1
      obj == [VSDebugSession(m, sessionId, OrRoot(sessionId), name,
                             h.managers[m].mockProcessId)
                EXCEPT !.early = Len(early)]
      h0 == [h EXCEPT !.sessions = Append(@, obj),
                      !.managers[m].mockProcessId = @ + 1]
      r == createNewSession(h0, s, config, early, now)
  IN IF ~r.ok THEN [ok |-> FALSE, h |-> r.h, s |-> s]
     ELSE [ok |-> TRUE, h |-> resolve(r.h, s, 1), s |-> s]

\* createSession(sessionId, name, config), src/src/flatSessionLauncher.ts
createSessionFlat(h, m, sessionId, name, config, early, now) ==
  LET s == Len(h.sessions) + 1
      obj == [VSDebugSession(m, sessionId, OrRoot(sessionId), name,
                             h.managers[m].mockProcessId)
                EXCEPT !.early = Len(early)]
      h0 == [h EXCEPT !.sessions = Append(@, obj),
                      !.managers[m].mockProcessId = @ + 1]
      r == createNewSession(h0, s, config, early, now)
  IN IF ~r.ok THEN [ok |-> FALSE, h |-> r.h, s |-> s]
     ELSE [ok |-> TRUE, h |-> resolve(r.h, s, r.connection), s |-> s]

\* Mutant: the process identifier is consumed only when the creation succeeds.
createSessionDeferred_pidOnSuccess(h, m, sessionId, name, config, early, now) ==
  LET s == Len(h.sessions) + 1
      obj == [VSDebugSession(m, sessionId, sessionId, name,
                             h.managers[m].mockProcessId)
                EXCEPT !.early = Len(early)]
      h0 == [h EXCEPT !.sessions = Append(@, obj)]
      r == createNewSession(h0, s, config, early, now)
  IN [ok |-> r.ok,
      h |-> IF r.ok THEN [r.h EXCEPT !.managers[m].mockProcessId = @ + 1] ELSE r.h,
      s |-> s]

\* createSession(sessionId, name, config), src/unnamed/part_000
createSessionDeferred(h, m, sessionId, name, config, early, now) ==
  LET s == Len(h.sessions) + 1
      obj == [VSDebugSession(m, sessionId, sessionId, name,
                             h.managers[m].mockProcessId)
                EXCEPT !.early = Len(early)]
      h0 == [h EXCEPT !.sessions = Append(@, obj),
                      !.managers[m].mockProcessId = @ + 1]
      r == createNewSession(h0, s, config, early, now)
  IN [ok |-> r.ok, h |-> r.h, s |-> s]

\* Mutant: { sessionId: target.id(), ...config }, the parent's field wins.
childAttachConfig_parentWins(config, tid) ==
  [k \in DOMAIN config \cup {"sessionId"} |->
     IF k \in DOMAIN config THEN config[k] ELSE tid]

\* { ...config, sessionId: target.id() }
childAttachConfig(config, tid) ==
  [k \in DOMAIN config \cup {"sessionId"} |->
     IF k = "sessionId" THEN tid ELSE config[k]]

AnnounceMsg(config, now, inv) ==
  [sessionId |-> Undefined, seq |-> 0, type |-> "request",
   command |-> "attachedChildSession", arguments |-> [config |-> config],
   via |-> 0, issued |-> now, inv |-> inv, ready |-> FALSE]

\* Mutant: the announcement waits for a promise reaction, as in part_000.
launcherFlat_async(h, m, p, tid, tname, config, early, now, inv) ==
  LET cfg == childAttachConfig(config, tid)
      r == createSessionFlat(h, m, tid, tname, cfg, early, now)
  IN IF ~r.ok THEN r
     ELSE [r EXCEPT !.h = thenOnHandle(r.h, p, AnnounceJob(p, cfg, now, inv))]

\* Mutant: a failed createSession is caught and the parent notified anyway.
launcherFlat_swallow(h, m, p, tid, tname, config, early, now, inv) ==
  LET cfg == childAttachConfig(config, tid)
      r == createSessionFlat(h, m, tid, tname, cfg, early, now)
  IN [r EXCEPT !.h = send(r.h, r.h.sessions[p].connection,
                          AnnounceMsg(cfg, now, inv))]

\* Mutant: the announcement goes out on the child's own connection.
launcherFlat_onChild(h, m, p, tid, tname, config, early, now, inv) ==
  LET cfg == childAttachConfig(config, tid)
      r == createSessionFlat(h, m, tid, tname, cfg, early, now)
  IN IF ~r.ok THEN r
     ELSE [r EXCEPT !.h = send(r.h, r.h.sessions[r.s].connection,
                               AnnounceMsg(cfg, now, inv))]

\* the launch callback, src/src/flatSessionLauncher.ts
launcherFlat(h, m, p, tid, tname, config, early, now, inv) ==
  LET cfg == childAttachConfig(config, tid)
      r == createSessionFlat(h, m, tid, tname, cfg, early, now)
  IN IF ~r.ok THEN r
     ELSE [r EXCEPT !.h = send(r.h, r.h.sessions[p].connection,
                               AnnounceMsg(cfg, now, inv))]

\* Mutant: a failed createSession is swallowed and the parent notified anyway.
launcherDeferred_swallow(h, m, p, tid, tname, config, early, now, inv) ==
  LET cfg == childAttachConfig(config, tid)
      r == createSessionDeferred(h, m, tid, tname, cfg, early, now)
  IN [r EXCEPT !.h = thenOnHandle(r.h, p, AnnounceJob(p, cfg, now, inv))]

\* the launch callback, src/unnamed/part_000
launcherDeferred(h, m, p, tid, tname, config, early, now, inv) ==
  LET cfg == childAttachConfig(config, tid)
      r == createSessionDeferred(h, m, tid, tname, cfg, early, now)
  IN IF ~r.ok THEN r
     ELSE [r EXCEPT !.h = thenOnHandle(r.h, p, AnnounceJob(p, cfg, now, inv))]

\* rootConnection.init(inputStream, outputStream): the root connection
\* starts reading frames; viewsAtInit records the views registered by then.
rootConnectionInit(h, m) ==
  [h EXCEPT !.managers[m].initialized = TRUE,
            !.managers[m].viewsAtInit =
               {v \in DOMAIN h.views : h.views[v].mgr = m}]

\* Mutant: the root connection starts reading before the root session exists.
constructorFlat_initFirst(h, early, now) ==
  LET m == Len(h.managers) + 1
      h0 == [h EXCEPT !.managers =
                        Append(@, [mockProcessId |-> 1, initialized |-> FALSE,
                                   viewsAtInit |-> {}]),
                      !.wire = Append(@, <<>>)]
      r == createSessionFlat(rootConnectionInit(h0, m), m, Undefined,
                             "rootSession", NoConfig, early, now)
  IN r.h

\* new VSSessionManager(inputStream, outputStream)
constructorFlat(h, early, now) ==
  LET m == Len(h.managers) + 1
      h0 == [h EXCEPT !.managers =
                        Append(@, [mockProcessId |-> 1, initialized |-> FALSE,
                                   viewsAtInit |-> {}]),
                      !.wire = Append(@, <<>>)]
      r == createSessionFlat(h0, m, Undefined, "rootSession", NoConfig, early, now)
  IN rootConnectionInit(r.h, m)

constructorDeferred(h, early, now) ==
  LET m == Len(h.managers) + 1
      h0 == [h EXCEPT !.managers =
                        Append(@, [mockProcessId |-> 1, initialized |-> FALSE,
                                   viewsAtInit |-> {}]),
                      !.wire = Append(@, <<>>)]
      r == createSessionDeferred(h0, m, "", "rootSession", NoConfig, early, now)
  IN rootConnectionInit(r.h, m)

constructor(h, early, now) ==
  IF variant = "flat" THEN constructorFlat(h, early, now)
  ELSE constructorDeferred(h, early, now)

\* ---------------------------------------------------------------- actions
Install(h) ==
  /\ managers' = h.managers
  /\ sessions' = h.sessions
  /\ views' = h.views
  /\ wire' = h.wire
  /\ microtasks' = h.microtasks

Live == {s \in DOMAIN sessions : sessions[s].live}

\* The environment performs n more operations (a name assignment is one).
Spend(n) ==
  /\ ops + n <= MaxOps
  /\ ops' = ops + n

Init ==
  /\ variant \in Variants
  /\ mode = "none"
  /\ managers = <<>>
  /\ sessions = <<>>
  /\ views = <<>>
  /\ wire = <<>>
  /\ microtasks = <<>>
  /\ launches = <<>>
  /\ clock = 0
  /\ ops = 0

\* Module startup: listen on the port given in argv, or serve stdin/stdout.
Startup ==
  /\ mode = "none"
  /\ \E listening \in BOOLEAN :
       IF listening
       THEN /\ mode' = "listen"
            /\ UNCHANGED <<managers, sessions, views, wire, microtasks, ops>>
       ELSE /\ mode' = "stdio"
            /\ \E early \in EarlyNames :
                 /\ Spend(Len(early))
                 /\ Install(constructor(Heap, early, clock))
  /\ UNCHANGED <<variant, launches, clock>>

\* net.createServer(socket => new VSSessionManager(socket, socket))
Accept ==
  /\ mode = "listen"
  /\ Len(managers) < MaxManagers
  /\ \E early \in EarlyNames :
       /\ Spend(IF managers = <<>> THEN Len(early) ELSE 1 + Len(early))
       /\ Install(constructor(Heap, early, clock))
  /\ UNCHANGED <<variant, mode, launches, clock>>

\* A parent session's domain logic invokes the launch callback.
Launch ==
  /\ \E p \in Live, tid \in TargetIds, config \in Configs, early \in EarlyNames :
       /\ Spend(1 + Len(early))
       /\ LET m == sessions[p].mgr
              now == clock + 1
              inv == Len(launches) + 1
              r == IF variant = "flat"
                   THEN launcherFlat(Heap, m, p, tid, "worker", config, early, now, inv)
                   ELSE launcherDeferred(Heap, m, p, tid, "worker", config, early, now, inv)
          IN /\ Install(r.h)
             /\ launches' = Append(launches,
                  [mgr |-> m, parent |-> p, tid |-> tid, config |-> config,
                   ok |-> r.ok, child |-> r.s, issued |-> now])
             /\ clock' = now
  /\ UNCHANGED <<variant, mode>>

\* session.name = n on a session the registry holds.
SetName ==
  /\ Spend(1)
  /\ \E s \in Live, n \in Names :
       Install(nameSetter(Heap, s, n, clock))
  /\ UNCHANGED <<variant, mode, launches, clock>>

OutputMsg(h, v, now) ==
  [sessionId |-> Undefined, seq |-> NextSeq(h, v), type |-> "event",
   command |-> "output", arguments |-> [config |-> NoConfig],
   via |-> 0, issued |-> now, inv |-> 0, ready |-> FALSE]

\* Domain logic that holds a session's connection sends on it directly.
SendOnConnection ==
  /\ Spend(1)
  /\ \E s \in Live :
       /\ sessions[s].promise = "resolved"
       /\ Install(send(Heap, sessions[s].value,
                       OutputMsg(Heap, sessions[s].value, clock + 1)))
  /\ clock' = clock + 1
  /\ UNCHANGED <<variant, mode, launches>>

ProcessMsg(h, s, job) ==
  [sessionId |-> Undefined, seq |-> NextSeq(h, h.sessions[s].value),
   type |-> "event", command |-> "process",
   arguments |-> [systemProcessId |-> h.sessions[s].mockProcessId,
                  name |-> job.name],
   via |-> 0, issued |-> job.issued, inv |-> 0, ready |-> FALSE]

\* One promise reaction job.
runJob(h, job) ==
  CASE job.kind = "dap" ->
         [h EXCEPT !.microtasks = Append(@, ProcessJob(job))]
    [] job.kind = "process" ->
         send(h, h.sessions[job.s].value, ProcessMsg(h, job.s, job))
    [] job.kind = "announce" ->
         send(h, h.sessions[job.s].value,
              AnnounceMsg(job.config, job.issued, job.inv))

\* The event loop runs the oldest queued promise job.
RunMicrotask ==
  /\ microtasks # <<>>
  /\ Install(runJob([Heap EXCEPT !.microtasks = Tail(@)], Head(microtasks)))
  /\ UNCHANGED <<variant, mode, launches, clock, ops>>

\* The registry asks a session's strategy for its connection once more.
StrategyAgain ==
  /\ Spend(1)
  /\ \E s \in DOMAIN sessions :
       LET r == IF variant = "flat" THEN getConnectionFlat(Heap, s)
                ELSE initDeferred(Heap, s)
       IN Install(r.h)
  /\ UNCHANGED <<variant, mode, launches, clock>>

Next ==
  \/ Startup
  \/ Accept
  \/ Launch
  \/ SetName
  \/ SendOnConnection
  \/ RunMicrotask
  \/ StrategyAgain

Spec == Init /\ [][Next]_vars

\* The event loop drains the promise job queue.
FairSpec == Spec /\ WF_vars(RunMicrotask)

\* ================================================================ claims
Announce == "attachedChildSession"

\* Positions in manager m's wire of the announcements of invocation i.
AnnouncedAt(m, i) ==
  {k \in DOMAIN wire[m] : wire[m][k].command = Announce /\ wire[m][k].inv = i}

AnnouncePending(i) ==
  \E j \in DOMAIN microtasks :
    microtasks[j].kind = "announce" /\ microtasks[j].inv = i

IsRoot(s) == sessions[s].initialName = "rootSession"

NoIdentifier(sid) == sid = Undefined \/ sid = ""

\* C1 (as stated): once the job queue has drained, every launch-callback
\* invocation has put exactly one attachedChildSession message on the wire.
C1_EveryInvocationAnnounces ==
  microtasks = <<>> =>
    \A i \in DOMAIN launches : Cardinality(AnnouncedAt(launches[i].mgr, i)) = 1

\* C1 (amended): an invocation whose createSession succeeds sends exactly
\* one message (at once in the flat variant, when the reaction on the
\* parent's connection promise runs in the deferred one), on the parent
\* session's connection and never the child's, of the form
\* {seq: 0, type: 'request', command: 'attachedChildSession',
\*  arguments: {config: C}} with C.sessionId = target.id(); an invocation
\* whose createSession raises sends none.
C1_SuccessfulInvocationAnnouncesOnce ==
  \A i \in DOMAIN launches :
    LET L == launches[i]
        F == AnnouncedAt(L.mgr, i)
    IN /\ \A m \in DOMAIN wire : m # L.mgr => AnnouncedAt(m, i) = {}
       /\ Cardinality(F) <= 1
       /\ ~L.ok => F = {} /\ ~AnnouncePending(i)
       /\ L.ok => (F = {} <=> AnnouncePending(i))
       /\ L.ok /\ variant = "flat" => F # {}
       /\ \A k \in F :
            LET f == wire[L.mgr][k]
            IN /\ f.via = sessions[L.parent].value
               /\ f.via # sessions[L.child].value
               /\ f.sessionId = sessions[L.parent].stratId
               /\ f.seq = 0
               /\ f.type = "request"
               /\ f.arguments.config.sessionId = L.tid

\* A successful invocation of the deferred variant has announced, and
\* another invocation has failed.
C1_Witness ==
  /\ variant = "deferred"
  /\ \E i \in DOMAIN launches : launches[i].ok /\ AnnouncedAt(launches[i].mgr, i) # {}
  /\ \E i \in DOMAIN launches : ~launches[i].ok

\* C2: whenever an attachedChildSession message for identifier X is on the
\* wire, the session created for X by that invocation is registered and its
\* Child Connection View, with identifier X, has been constructed.
C2_ChildExistsBeforeAnnouncement ==
  \A m \in DOMAIN wire : \A k \in DOMAIN wire[m] :
    LET f == wire[m][k]
    IN f.command = Announce =>
         \E s \in DOMAIN sessions :
           /\ s = launches[f.inv].child
           /\ sessions[s].mgr = m
           /\ sessions[s].live
           /\ sessions[s].sessionId = f.arguments.config.sessionId
           /\ \E v \in DOMAIN views :
                /\ views[v].owner = s
                /\ views[v].mgr = m
                /\ views[v].sessionId = f.arguments.config.sessionId

\* An announcement is on the wire in each variant's run.
C2_Witness ==
  \E m \in DOMAIN wire : \E k \in DOMAIN wire[m] :
    /\ wire[m][k].command = Announce
    /\ wire[m][k].arguments.config.sessionId = "child-1"

\* C3: every Child Connection View carries the identifier createSession was
\* given for its session: the root's view has no (absent or empty)
\* identifier and its frames no tag, a child created for target id X has a
\* view with identifier X and its frames are tagged X.
C3_ViewHasGivenIdentifier ==
  /\ \A v \in DOMAIN views :
       /\ views[v].sessionId = sessions[views[v].owner].sessionId
       /\ views[v].mgr = sessions[views[v].owner].mgr
  /\ \A s \in Live :
       /\ sessions[s].value \in DOMAIN views
       /\ views[sessions[s].value].owner = s
       /\ IsRoot(s) => NoIdentifier(views[sessions[s].value].sessionId)
  /\ \A i \in DOMAIN launches :
       launches[i].ok =>
         views[sessions[launches[i].child].value].sessionId = launches[i].tid
  /\ \A m \in DOMAIN wire : \A k \in DOMAIN wire[m] :
       LET f == wire[m][k]
           s == views[f.via].owner
       IN /\ f.sessionId = sessions[s].sessionId
          /\ IsRoot(s) => NoIdentifier(f.sessionId)

\* The root and the child created for "child-1" have both sent a frame.
C3_Witness ==
  \E m \in DOMAIN wire : \E a, b \in DOMAIN wire[m] :
    /\ IsRoot(views[wire[m][a].via].owner)
    /\ wire[m][b].command = "process"
    /\ wire[m][b].sessionId = "child-1"

\* C4 (as stated): no two live sessions of a manager share a session
\* identifier, and at most one Child Connection View is registered per
\* session identifier.
C4_UniqueIdentifiers ==
  /\ \A s1, s2 \in Live :
       s1 # s2 /\ sessions[s1].mgr = sessions[s2].mgr
         => sessions[s1].id # sessions[s2].id
  /\ \A v1, v2 \in DOMAIN views :
       v1 # v2 /\ views[v1].mgr = views[v2].mgr
         => views[v1].sessionId # views[v2].sessionId

\* C5: a session's Deferred Connection Handle is resolved by the step that
\* constructs the session, with that session's own Child Connection View,
\* and neither its state nor its value changes afterwards, however often
\* the strategy or the consumers are invoked again.
C5_HandleResolvedOnce ==
  /\ [](\A s \in DOMAIN sessions :
          /\ sessions[s].live => sessions[s].promise = "resolved"
          /\ sessions[s].promise = "resolved" =>
               /\ sessions[s].value \in DOMAIN views
               /\ views[sessions[s].value].owner = s
               /\ views[sessions[s].value].sessionId = sessions[s].sessionId)
  /\ [][\A s \in DOMAIN sessions :
          /\ sessions'[s].promise = sessions[s].promise
          /\ sessions'[s].value = sessions[s].value]_vars

\* A child's handle is resolved and its strategy has been invoked again.
C5_Witness ==
  \E s \in DOMAIN sessions :
    /\ ~IsRoot(s)
    /\ sessions[s].promise = "resolved"
    /\ sessions[s].built >= 2

SessionIds == 1..(MaxManagers + MaxOps)

\* A consumer waits on the handle of a session whose construction failed.
Stuck(s) ==
  /\ s \in DOMAIN sessions
  /\ ~sessions[s].live
  /\ sessions[s].reactions # <<>>

\* C6 (as stated): a consumer awaiting the handle of a session whose
\* connection could not be produced does not stay pending forever.
C6_FailureSurfaces ==
  \A s \in SessionIds : [](Stuck(s) => <>~Stuck(s))

\* The 'process' notifications written through session s's connection.
IsProcessOf(s, f) == f.command = "process" /\ f.via = sessions[s].value

ProcFrames(s) ==
  LET w == wire[sessions[s].mgr]
      RECURSIVE pick(_)
      pick(k) == IF k > Len(w) THEN <<>>
                 ELSE IF IsProcessOf(s, w[k]) THEN <<w[k]>> \o pick(k + 1)
                 ELSE pick(k + 1)
  IN pick(1)

Assigned(s, i) ==
  /\ s \in DOMAIN sessions
  /\ i <= Len(sessions[s].assigned)
  /\ sessions[s].promise = "resolved"

Delivered(s, i) ==
  /\ s \in DOMAIN sessions
  /\ Len(ProcFrames(s)) >= i
  /\ ProcFrames(s)[i].arguments.name = sessions[s].assigned[i]
  /\ ProcFrames(s)[i].arguments.systemProcessId = sessions[s].mockProcessId
  /\ ProcFrames(s)[i].sessionId = sessions[s].sessionId

\* C7: every name assignment on a session whose handle has resolved is
\* eventually followed by a 'process' notification through that session's
\* connection carrying the session's synthetic process identifier and the
\* assigned name, whether the assignment preceded the resolution or not.
C7_NameAssignmentNotifies ==
  \A s \in SessionIds : \A i \in 1..MaxOps :
    [](Assigned(s, i) => <>Delivered(s, i))

\* One assignment made before the resolution and one made after it have
\* both been notified.
C7_Witness ==
  \E s \in DOMAIN sessions :
    /\ sessions[s].early = 1
    /\ Len(sessions[s].assigned) = 2
    /\ Delivered(s, 1)
    /\ Delivered(s, 2)

\* Every notification of session s's assignments has been written.
NamesDrained(s) ==
  \A j \in DOMAIN microtasks :
    microtasks[j].s = s => microtasks[j].kind = "announce"

OnlyEarlyNames(s) ==
  /\ sessions[s].promise = "resolved"
  /\ sessions[s].early >= 1
  /\ Len(sessions[s].assigned) = sessions[s].early
  /\ NamesDrained(s)

\* C8 (as stated): k >= 1 assignments made before the handle resolves
\* produce exactly one 'process' notification, carrying the last name.
C8_OneNotificationForEarlyNames ==
  \A s \in DOMAIN sessions :
    OnlyEarlyNames(s) =>
      /\ Len(ProcFrames(s)) = 1
      /\ ProcFrames(s)[1].arguments.name = sessions[s].assigned[sessions[s].early]

\* C8 (amended): k >= 1 assignments made before the handle resolves produce
\* k 'process' notifications once it resolves, one per assignment and in
\* assignment order, so the last one carries the last assigned name.
C8_OneNotificationPerEarlyName ==
  \A s \in DOMAIN sessions :
    OnlyEarlyNames(s) =>
      /\ Len(ProcFrames(s)) = sessions[s].early
      /\ \A i \in 1..sessions[s].early :
           ProcFrames(s)[i].arguments.name = sessions[s].assigned[i]

\* Two different names were assigned before the resolution and notified.
C8_Witness ==
  \E s \in DOMAIN sessions :
    /\ OnlyEarlyNames(s)
    /\ sessions[s].early = 2
    /\ sessions[s].assigned[1] # sessions[s].assigned[2]

\* C9 (as stated): once the process serves a transport, exactly one session
\* without a session identifier exists over the whole run, named
\* 'rootSession'; launch callbacks add no other.
C9_ExactlyOneRootSession ==
  managers # <<>> =>
    /\ Cardinality({s \in Live : NoIdentifier(sessions[s].sessionId)}) = 1
    /\ \A s \in Live :
         NoIdentifier(sessions[s].sessionId) => sessions[s].initialName = "rootSession"

SameConnection(m, a, b) == wire[m][a].via = wire[m][b].via

IssuedDirectly(f) == f.command = Announce \/ f.command = "output"

\* C10 (as stated): on one connection, an announcement is written before
\* every message issued after its launch-callback invocation.
C10_IssueOrder ==
  \A m \in DOMAIN wire : \A a, b \in DOMAIN wire[m] :
    /\ wire[m][a].command = Announce
    /\ IssuedDirectly(wire[m][b])
    /\ SameConnection(m, a, b)
    /\ wire[m][a].issued < wire[m][b].issued
    => a < b

\* C10 (amended): the announcements of successive launch-callback
\* invocations from one parent are written in invocation order; in
\* flatSessionLauncher.ts each is also written before any message issued on
\* that connection after its invocation, while in part_000 it is written
\* only when the reaction on the parent's connection promise runs.
C10_AnnouncementOrder ==
  /\ \A m \in DOMAIN wire : \A a, b \in DOMAIN wire[m] :
       /\ wire[m][a].command = Announce
       /\ IssuedDirectly(wire[m][b])
       /\ SameConnection(m, a, b)
       /\ wire[m][a].issued < wire[m][b].issued
       /\ (wire[m][b].command = Announce \/ variant = "flat")
       => a < b
  /\ \A j \in DOMAIN microtasks :
       microtasks[j].kind = "announce" =>
         /\ variant = "deferred"
         /\ \A m \in DOMAIN wire : \A b \in DOMAIN wire[m] :
              /\ wire[m][b].command = Announce
              /\ wire[m][b].via = sessions[microtasks[j].s].value
              => wire[m][b].issued < microtasks[j].issued

\* Two announcements from one parent are on the wire in part_000.
C10_Witness ==
  /\ variant = "deferred"
  /\ \E m \in DOMAIN wire : \E a, b \in DOMAIN wire[m] :
       /\ a < b
       /\ wire[m][a].command = Announce
       /\ wire[m][b].command = Announce
       /\ SameConnection(m, a, b)

\* C11 (as stated): a launch-callback invocation for a target id that a
\* live session of that manager already carries is aborted with an error,
\* and leaves the registered views and the registry's sessions as they were.
C11_DuplicateLaunchAborts ==
  [][Len(launches') > Len(launches) =>
       LET L == launches'[Len(launches')]
       IN (\E s \in Live : sessions[s].mgr = L.mgr /\ sessions[s].id = L.tid)
            => /\ ~L.ok
               /\ views' = views
               /\ Live' = Live]_vars

\* C12: when createSession fails inside the launch callback, the callback
\* fails too, and no attachedChildSession announcement for that child is
\* sent or left waiting to be sent.
C12_FailedCreationIsNotAnnounced ==
  \A i \in DOMAIN launches :
    ~sessions[launches[i].child].live =>
      /\ ~launches[i].ok
      /\ \A m \in DOMAIN wire : AnnouncedAt(m, i) = {}
      /\ ~AnnouncePending(i)

\* In the flat variant a creation has failed after another succeeded.
C12_Witness ==
  /\ variant = "flat"
  /\ \E i, j \in DOMAIN launches :
       /\ launches[i].ok
       /\ ~launches[j].ok
       /\ ~sessions[launches[j].child].live

\* The configuration invocation i announced or is about to announce.
AnnouncedConfigs(i) ==
  {wire[launches[i].mgr][k].arguments.config : k \in AnnouncedAt(launches[i].mgr, i)}
  \cup {microtasks[j].config : j \in {x \in DOMAIN microtasks :
          microtasks[x].kind = "announce" /\ microtasks[x].inv = i}}

\* C13: the merged child configuration has the parent's fields plus
\* sessionId, agrees with the parent configuration on every other field,
\* and has sessionId = target.id() even when the parent configuration
\* carries a sessionId; the configuration createSession registered is the
\* one announced, and configurations registered earlier stay as they were.
C13_MergedConfiguration ==
  /\ \A i \in DOMAIN launches :
       launches[i].ok =>
         LET L == launches[i]
             C == sessions[L.child].config
         IN /\ DOMAIN C = DOMAIN L.config \cup {"sessionId"}
            /\ \A k \in DOMAIN L.config : k # "sessionId" => C[k] = L.config[k]
            /\ C["sessionId"] = L.tid
            /\ AnnouncedConfigs(i) = {C}
  /\ \A s \in Live : IsRoot(s) => sessions[s].config = NoConfig

\* A child was launched from a configuration that already had a sessionId.
C13_Witness ==
  \E i \in DOMAIN launches :
    /\ launches[i].ok
    /\ "sessionId" \in DOMAIN launches[i].config
    /\ launches[i].config["sessionId"] # launches[i].tid
    /\ AnnouncedAt(launches[i].mgr, i) # {}

\* C14 (as stated): after session.name = n, reading session.name returns n.
C14_NameReadsBack ==
  \A s \in DOMAIN sessions :
    sessions[s].assigned # <<>> =>
      nameGetter(Heap, s) = sessions[s].assigned[Len(sessions[s].assigned)]

\* C15: every 'process' notification and every attachedChildSession
\* announcement was written through a connection whose session's Deferred
\* Connection Handle was already resolved when the frame was sent.
C15_NoSendBeforeResolution ==
  \A m \in DOMAIN wire : \A k \in DOMAIN wire[m] :
    wire[m][k].command \in {"process", Announce} =>
      /\ wire[m][k].ready
      /\ sessions[views[wire[m][k].via].owner].value = wire[m][k].via

\* A notification and an announcement have been written in the flat variant.
C15_Witness ==
  /\ variant = "flat"
  /\ \E m \in DOMAIN wire : \E a, b \in DOMAIN wire[m] :
       /\ wire[m][a].command = "process"
       /\ wire[m][b].command = Announce

\* The sessions of manager m constructed up to and including session s.
CreatedUpTo(m, s) == {t \in 1..s : sessions[t].mgr = m}

\* C16: within one manager the synthetic process identifiers are 1, 2, 3,
\* ... in creation order (the root's is 1), distinct and fixed, and a
\* failed createSession consumes its identifier as well.
C16_SyntheticProcessIds ==
  /\ \A s \in DOMAIN sessions :
       sessions[s].mockProcessId = Cardinality(CreatedUpTo(sessions[s].mgr, s))
  /\ \A m \in DOMAIN managers :
       managers[m].mockProcessId = 1 + Cardinality(CreatedUpTo(m, Len(sessions)))

\* A failed creation took identifier 2 and the next creation got 3.
C16_Witness ==
  \E s, t \in DOMAIN sessions :
    /\ sessions[s].mgr = sessions[t].mgr
    /\ ~sessions[s].live
    /\ sessions[s].mockProcessId = 2
    /\ sessions[t].live
    /\ sessions[t].mockProcessId = 3

\* C17: when the root connection's init starts reading the input stream,
\* the manager's root session is already live and its Child Connection
\* View is already registered.
C17_RootViewBeforeInit ==
  \A m \in DOMAIN managers :
    managers[m].initialized =>
      \E v \in managers[m].viewsAtInit :
        /\ views[v].mgr = m
        /\ sessions[views[v].owner].mockProcessId = 1
        /\ sessions[views[v].owner].live
        /\ sessions[views[v].owner].initialName = "rootSession"

\* A manager of the deferred variant is reading, its root view built by init.
C17_Witness ==
  /\ variant = "deferred"
  /\ \E m \in DOMAIN managers :
       /\ managers[m].initialized
       /\ managers[m].viewsAtInit # {}

\* C18 (as stated): whenever a strategy has yielded a view, every later
\* call on that strategy yields that same view.
C18_SameViewForEveryCaller ==
  \A s \in DOMAIN sessions :
    LET o == sessions[s].obtained
    IN (o # <<>> /\ o[1] # 0) => \A i \in DOMAIN o : o[i] = o[1]

\* C18 (amended): a session owns at most one Child Connection View; every
\* call of getConnection (flat) or init (deferred) evaluates new
\* ChildConnection again, so a repeated call is rejected as a duplicate
\* registration: in the flat variant the caller obtains no view, in the
\* deferred variant the handle keeps the first view.  A resolved handle
\* holds the view of the first call.
C18_OneViewRepeatedCallRejected ==
  \A s \in DOMAIN sessions :
    LET o == sessions[s].obtained
    IN /\ Cardinality(OwnedViews(Heap, s)) <= 1
       /\ sessions[s].built = Len(o)
       /\ \A i \in DOMAIN o :
            i >= 2 => o[i] = (IF variant = "flat" THEN 0 ELSE o[1])
       /\ sessions[s].promise = "resolved" =>
            /\ sessions[s].value = o[1]
            /\ OwnedViews(Heap, s) = {o[1]}

\* getConnection was called a second time on a strategy that had built a view.
C18_Witness ==
  /\ variant = "flat"
  /\ \E s \in DOMAIN sessions :
       /\ Len(sessions[s].obtained) >= 2
       /\ sessions[s].obtained[1] # 0

\* C19: the 'process' notifications of one session carry its assigned
\* names in assignment order, and once every pending notification of a
\* session with a resolved handle has been written there is one per
\* assignment, so the last one carries the last assigned name.
C19_NotificationsInAssignmentOrder ==
  \A s \in DOMAIN sessions :
    LET P == ProcFrames(s)
        A == sessions[s].assigned
    IN /\ Len(P) <= Len(A)
       /\ \A i \in DOMAIN P : P[i].arguments.name = A[i]
       /\ (sessions[s].promise = "resolved" /\ NamesDrained(s)) =>
            Len(P) = Len(A)

\* Two different names assigned after the resolution were notified in order.
C19_Witness ==
  \E s \in DOMAIN sessions :
    /\ sessions[s].early = 0
    /\ Len(sessions[s].assigned) = 2
    /\ sessions[s].assigned[1] # sessions[s].assigned[2]
    /\ Len(ProcFrames(s)) = 2
    /\ ProcFrames(s)[2].arguments.name = sessions[s].assigned[2]

====
